---------------------------- MODULE Spec2Model ----------------------------
(***************************************************************************)
(* A model of the RG CRM backend (app/models.py, app/schemas.py,           *)
(* app/crud.py, app/main.py).                                              *)
(*                                                                         *)
(* The relational store is four tables, each a sequence of rows in         *)
(* insertion order; a generated primary key is the row's position.  Every  *)
(* route handler of app/main.py is one pure operator from (tables, clock,  *)
(* arguments) to (tables, response), and one action that applies it.  The  *)
(* arguments are the typed records of app/schemas.py, i.e. what the        *)
(* handler receives after request validation.                              *)
(***************************************************************************)
EXTENDS Integers, Sequences, FiniteSets, TLC

VARIABLES
    customers,                  \* table "customers"  (models.Customer)
    addresses,                  \* table "addresses"  (models.Address)
    orders,                     \* table "orders"     (models.Order)
    order_shipping_addresses,   \* association table  (models.order_shipping_addresses)
    now,                        \* the store's clock, read by func.now(), in hours
    fk_enforced,                \* whether the store enforces FOREIGN KEY clauses
    request,                    \* the arguments of the last request that carried some
    response,                   \* the response to the last request
    session                     \* per concurrent request: its Session and position

tables == <<customers, addresses, orders, order_shipping_addresses>>
vars == <<customers, addresses, orders, order_shipping_addresses,
          now, fk_enforced, request, response, session>>

-----------------------------------------------------------------------------
(* Bounds of the model. *)
MaxCustomers == 2
MaxAddrs == 2
MaxOrders == 2
MaxShip == 2
MaxTime == 1
MaxPurchases == 3
MaxDays == 1

-----------------------------------------------------------------------------
(* Values. *)

\* Python's None; Optional[X] is None or <<x>>.
None == <<>>

BILLING == "billing"
SHIPPING == "shipping"
AddressType == {BILLING, SHIPPING}

IN_STORE == "in_store"
ONLINE == "online"
OrderType == {IN_STORE, ONLINE}

Emails == {"a@x.com", "b@x.com"}
Telephones == {"111", "222"}
ZipCodes == {"12345", "98765"}

SeqUpTo(S, n) == UNION {[1..k -> S] : k \in 0..n}

Range(s) == {s[i] : i \in 1..Len(s)}

\* schemas.AddressCreate
AddressCreate(types, zips) ==
    [type : types, street : {"1 Main St"}, city : {"Test City"},
     state : {"TS"}, zip_code : zips]

\* schemas.CustomerCreate
CustomerCreate(emails, telephones, address_lists) ==
    [telephone : telephones, email : emails, first_name : {"John"},
     last_name : {"Doe"}, addresses : address_lists]

\* schemas.OrderCreate
OrderCreate(types, billing_ids, shipping_ids) ==
    [order_type : types, total_amount : {100},
     billing_address_id : billing_ids,
     shipping_address_ids : SeqUpTo(shipping_ids, MaxShip)]

\* The tables as one value, as a Session sees them.
DB == [customers |-> customers, addresses |-> addresses, orders |-> orders,
       order_shipping_addresses |-> order_shipping_addresses]

-----------------------------------------------------------------------------
(* Query helpers.  Query.filter(...).all() over one table is SelectSeq: the  *)
(* rows that pass, in storage order.                                        *)

\* Query.first(): the first row in storage order, or None.
first(rows) == IF rows = <<>> THEN None ELSE <<rows[1]>>

Ids(rows) == {rows[i].id : i \in 1..Len(rows)}


-----------------------------------------------------------------------------
(* app/models.py: rows as the store materialises them at INSERT. *)

\* models.Customer: id generated, created_at = server_default func.now(),
\* updated_at has no default and is set only by an UPDATE.
models_Customer(id, customer, t) ==
    [id |-> id,
     telephone |-> customer.telephone,
     email |-> customer.email,
     first_name |-> customer.first_name,
     last_name |-> customer.last_name,
     created_at |-> t,
     updated_at |-> None]

\* Mutant: city and state are passed in each other's place.
models_Address_swapped(id, customer_id, address, t) ==
    [id |-> id,
     customer_id |-> customer_id,
     type |-> address.type,
     street |-> address.street,
     city |-> address.state,
     state |-> address.city,
     zip_code |-> address.zip_code,
     created_at |-> t,
     updated_at |-> None]

\* models.Address
models_Address(id, customer_id, address, t) ==
    [id |-> id,
     customer_id |-> customer_id,
     type |-> address.type,
     street |-> address.street,
     city |-> address.city,
     state |-> address.state,
     zip_code |-> address.zip_code,
     created_at |-> t,
     updated_at |-> None]

\* Mutant: the INSERT sets updated_at as an UPDATE would.
models_Order_updated(id, customer_id, order, t) ==
    [id |-> id,
     customer_id |-> customer_id,
     order_type |-> order.order_type,
     total_amount |-> order.total_amount,
     billing_address_id |-> order.billing_address_id,
     created_at |-> t,
     updated_at |-> <<t>>]

\* models.Order
models_Order(id, customer_id, order, t) ==
    [id |-> id,
     customer_id |-> customer_id,
     order_type |-> order.order_type,
     total_amount |-> order.total_amount,
     billing_address_id |-> order.billing_address_id,
     created_at |-> t,
     updated_at |-> None]

\* Mutant: the unique index on telephone is missing.
UniqueViolation_email_only(rows, row) ==
    \E i \in 1..Len(rows) : rows[i].email = row.email

\* Mutant: the unique index on email is missing.
UniqueViolation_telephone_only(rows, row) ==
    \E i \in 1..Len(rows) : rows[i].telephone = row.telephone

\* Customer.telephone and Customer.email are declared unique=True: the store
\* rejects an INSERT whose telephone or email a stored row has.
UniqueViolation(rows, row) ==
    \E i \in 1..Len(rows) :
        rows[i].email = row.email \/ rows[i].telephone = row.telephone

\* The FOREIGN KEY clauses of orders (customer_id, billing_address_id), which
\* the store checks at INSERT only when it enforces foreign keys.
ForeignKeyViolation(db, row) ==
    \/ row.customer_id \notin Ids(db.customers)
    \/ row.billing_address_id \notin Ids(db.addresses)

-----------------------------------------------------------------------------
(* app/schemas.py: response models, read from ORM rows (from_attributes);   *)
(* a relationship attribute is loaded from the tables when it is read.      *)

\* schemas.Address
schemas_Address(row) == row

\* Customer.addresses
customer_addresses(db, customer_id) ==
    SelectSeq(db.addresses, LAMBDA a : a.customer_id = customer_id)

\* schemas.Customer
schemas_Customer(db, row) ==
    [id |-> row.id,
     telephone |-> row.telephone,
     email |-> row.email,
     first_name |-> row.first_name,
     last_name |-> row.last_name,
     created_at |-> row.created_at,
     updated_at |-> row.updated_at,
     addresses |-> LET rows == customer_addresses(db, row.id)
                   IN [i \in 1..Len(rows) |-> schemas_Address(rows[i])]]

\* A response: the status code, the error detail and the body (a list; a
\* single object is a list of one, no content is None).
OK(operation, body) ==
    [operation |-> operation, status_code |-> 200, detail |-> "", body |-> body]

HTTPException(operation, status_code, detail) ==
    [operation |-> operation, status_code |-> status_code, detail |-> detail,
     body |-> None]

\* An exception no handler catches: the framework answers 500.
InternalServerError(operation, exception) ==
    HTTPException(operation, 500, exception)

NoResponse == [operation |-> "", status_code |-> 0, detail |-> "", body |-> None]

-----------------------------------------------------------------------------
(* app/crud.py: customers. *)

get_customer_by_email(db, email) ==
    first(SelectSeq(db.customers, LAMBDA c : c.email = email))

get_customer_by_telephone(db, telephone) ==
    first(SelectSeq(db.customers, LAMBDA c : c.telephone = telephone))

\* db.add(db_customer); db.flush(): the INSERT of the customer row, which
\* generates its id.  Raises when the store rejects the row.
flush_customer(db, t, customer) ==
    LET db_customer == models_Customer(Len(db.customers) + 1, customer, t)
    IN  IF UniqueViolation(db.customers, db_customer)
        THEN [raised |-> "IntegrityError", db |-> db, db_customer |-> None]
        ELSE [raised |-> "",
              db |-> [db EXCEPT !.customers = Append(@, db_customer)],
              db_customer |-> <<db_customer>>]

\* One turn of "for address in customer.addresses": the address row with
\* customer_id = db_customer.id, INSERTed by the flush of db.commit().
add_address(db, t, customer_id, address) ==
    [db EXCEPT !.addresses =
        Append(@, models_Address(Len(db.addresses) + 1, customer_id, address, t))]

RECURSIVE add_addresses(_, _, _, _)
add_addresses(db, t, customer_id, addrs) ==
    IF addrs = <<>> THEN db
    ELSE add_addresses(add_address(db, t, customer_id, Head(addrs)),
                       t, customer_id, Tail(addrs))

\* crud.create_customer, run to its end in one transaction.
crud_create_customer(db, t, customer) ==
    LET f == flush_customer(db, t, customer)
    IN  IF f.raised # ""
        THEN [raised |-> f.raised, db |-> db, result |-> None]
        ELSE [raised |-> "",
              db |-> add_addresses(f.db, t, f.db_customer[1].id, customer.addresses),
              result |-> f.db_customer]

-----------------------------------------------------------------------------
(* app/main.py: POST /customers/ *)

\* Mutant: the pre-check of the telephone is missing.
main_create_customer_email_only(db, t, customer) ==
    IF get_customer_by_email(db, customer.email) # None
    THEN [db |-> db,
          response |-> HTTPException("create_customer", 400, "Email already registered")]
    ELSE LET r == crud_create_customer(db, t, customer)
         IN  IF r.raised # ""
             THEN [db |-> r.db,
                   response |-> InternalServerError("create_customer", r.raised)]
             ELSE [db |-> r.db,
                   response |-> OK("create_customer",
                                   <<schemas_Customer(r.db, r.result[1])>>)]

main_create_customer(db, t, customer) ==
    IF get_customer_by_email(db, customer.email) # None
    THEN [db |-> db,
          response |-> HTTPException("create_customer", 400, "Email already registered")]
    ELSE IF get_customer_by_telephone(db, customer.telephone) # None
    THEN [db |-> db,
          response |-> HTTPException("create_customer", 400, "Telephone already registered")]
    ELSE LET r == crud_create_customer(db, t, customer)
         IN  IF r.raised # ""
             THEN [db |-> r.db,
                   response |-> InternalServerError("create_customer", r.raised)]
             ELSE [db |-> r.db,
                   response |-> OK("create_customer",
                                   <<schemas_Customer(r.db, r.result[1])>>)]

-----------------------------------------------------------------------------
(* app/crud.py and app/main.py: orders. *)

\* Order.billing_address: the address row the foreign key names, or None.
billing_address(db, row) ==
    first(SelectSeq(db.addresses, LAMBDA a : a.id = row.billing_address_id))

\* Order.shipping_addresses: the address rows joined to the order through
\* the association table.
shipping_addresses(db, row) ==
    LET links == SelectSeq(db.order_shipping_addresses,
                        LAMBDA l : l.order_id = row.id /\ l.address_id \in Ids(db.addresses))
    IN  [i \in 1..Len(links) |->
            CHOOSE a \in Range(db.addresses) : a.id = links[i].address_id]

\* schemas.Order; billing_address is Optional here, and the required field
\* is checked by Order_is_valid.
schemas_Order(db, row) ==
    [id |-> row.id,
     customer_id |-> row.customer_id,
     order_type |-> row.order_type,
     total_amount |-> row.total_amount,
     created_at |-> row.created_at,
     updated_at |-> row.updated_at,
     billing_address |-> LET b == billing_address(db, row)
                         IN  IF b = None THEN None ELSE <<schemas_Address(b[1])>>,
     shipping_addresses |-> LET rows == shipping_addresses(db, row)
                            IN [i \in 1..Len(rows) |-> schemas_Address(rows[i])]]

\* "billing_address: Address" is a required, non-Optional field.
Order_is_valid(order) == order.billing_address # None

\* db_order.shipping_addresses.extend(shipping_addresses): one association
\* row per address row the query returned.
extend_shipping_addresses(db, order_id, rows) ==
    [db EXCEPT !.order_shipping_addresses =
        @ \o [i \in 1..Len(rows) |-> [order_id |-> order_id, address_id |-> rows[i].id]]]

\* Mutant: the shipping addresses are looked up id by id, so that an id the
\* list gives twice is attached twice.
crud_create_order_per_id(db, t, fk, customer_id, order) ==
    LET db_order == models_Order(Len(db.orders) + 1, customer_id, order, t)
        flushed == [db EXCEPT !.orders = Append(@, db_order)]
        ids == SelectSeq(order.shipping_address_ids, LAMBDA a : a \in Ids(db.addresses))
        found == [i \in 1..Len(ids) |-> [id |-> ids[i]]]
    IN  IF fk /\ ForeignKeyViolation(db, db_order)
        THEN [raised |-> "IntegrityError", db |-> db, result |-> None]
        ELSE [raised |-> "",
              db |-> extend_shipping_addresses(flushed, db_order.id, found),
              result |-> <<db_order>>]

\* Mutant: the ids of the list are attached as given, without the lookup.
crud_create_order_as_given(db, t, fk, customer_id, order) ==
    LET db_order == models_Order(Len(db.orders) + 1, customer_id, order, t)
        flushed == [db EXCEPT !.orders = Append(@, db_order)]
        given == [i \in 1..Len(order.shipping_address_ids) |->
                    [id |-> order.shipping_address_ids[i]]]
    IN  IF fk /\ ForeignKeyViolation(db, db_order)
        THEN [raised |-> "IntegrityError", db |-> db, result |-> None]
        ELSE [raised |-> "",
              db |-> extend_shipping_addresses(flushed, db_order.id, given),
              result |-> <<db_order>>]

\* crud.create_order
crud_create_order(db, t, fk, customer_id, order) ==
    LET db_order == models_Order(Len(db.orders) + 1, customer_id, order, t)
        flushed == [db EXCEPT !.orders = Append(@, db_order)]
        found == SelectSeq(db.addresses,
                        LAMBDA a : a.id \in Range(order.shipping_address_ids))
    IN  IF fk /\ ForeignKeyViolation(db, db_order)
        THEN [raised |-> "IntegrityError", db |-> db, result |-> None]
        ELSE [raised |-> "",
              db |-> IF order.shipping_address_ids # <<>>
                     THEN extend_shipping_addresses(flushed, db_order.id, found)
                     ELSE flushed,
              result |-> <<db_order>>]

\* main.create_order: POST /customers/{customer_id}/orders/ with
\* response_model=schemas.Order, which validates what the handler returned
\* after the transaction was committed.
main_create_order(db, t, fk, customer_id, order) ==
    LET r == crud_create_order(db, t, fk, customer_id, order)
    IN  IF r.raised # ""
        THEN [db |-> r.db, response |-> InternalServerError("create_order", r.raised)]
        ELSE LET body == schemas_Order(r.db, r.result[1])
             IN  IF Order_is_valid(body)
                 THEN [db |-> r.db, response |-> OK("create_order", <<body>>)]
                 ELSE [db |-> r.db,
                       response |-> InternalServerError("create_order",
                                                        "ResponseValidationError")]

-----------------------------------------------------------------------------
(* Order history. *)

\* Mutant: the orders are selected by the order's id, not its customer_id.
customer_orders_by_id(db, customer_id) ==
    SelectSeq(db.orders, LAMBDA o : o.id = customer_id)

\* Customer.orders
customer_orders(db, customer_id) ==
    SelectSeq(db.orders, LAMBDA o : o.customer_id = customer_id)

\* Mutant: a customer without orders is reported as no history.
crud_get_customer_order_history_if_orders(db, customer_identifier, is_email) ==
    LET customer == IF is_email
                    THEN get_customer_by_email(db, customer_identifier)
                    ELSE get_customer_by_telephone(db, customer_identifier)
    IN  IF customer = None \/ SelectSeq(db.orders,
                                     LAMBDA o : o.customer_id = customer[1].id) = <<>>
        THEN [raised |-> "", result |-> None]
        ELSE LET rows == SelectSeq(db.orders, LAMBDA o : o.customer_id = customer[1].id)
                 history == [customer |-> schemas_Customer(db, customer[1]),
                             orders |-> [i \in 1..Len(rows) |-> schemas_Order(db, rows[i])]]
             IN  IF \A i \in 1..Len(rows) : Order_is_valid(history.orders[i])
                 THEN [raised |-> "", result |-> <<history>>]
                 ELSE [raised |-> "ValidationError", result |-> None]

\* crud.get_customer_order_history
crud_get_customer_order_history(db, customer_identifier, is_email) ==
    LET customer == IF is_email
                    THEN get_customer_by_email(db, customer_identifier)
                    ELSE get_customer_by_telephone(db, customer_identifier)
    IN  IF customer = None
        THEN [raised |-> "", result |-> None]
        ELSE LET rows == customer_orders(db, customer[1].id)
                 history == [customer |-> schemas_Customer(db, customer[1]),
                             orders |-> [i \in 1..Len(rows) |-> schemas_Order(db, rows[i])]]
             IN  IF \A i \in 1..Len(rows) : Order_is_valid(history.orders[i])
                 THEN [raised |-> "", result |-> <<history>>]
                 ELSE [raised |-> "ValidationError", result |-> None]

\* main.get_customer_order_history: GET /customers/history/
main_get_customer_order_history(db, identifier, is_email) ==
    LET r == crud_get_customer_order_history(db, identifier, is_email)
    IN  IF r.raised # ""
        THEN InternalServerError("get_customer_order_history", r.raised)
        ELSE IF r.result = None
        THEN HTTPException("get_customer_order_history", 404, "Customer not found")
        ELSE OK("get_customer_order_history", r.result)

-----------------------------------------------------------------------------
(* Orders by zip code. *)

\* The rows of the billing join: Address JOIN Order ON Address.id =
\* Order.billing_address_id WHERE Address.type = BILLING, as (address
\* position, order position).
billing_join(db) ==
    {p \in (1..Len(db.addresses)) \X (1..Len(db.orders)) :
        /\ db.addresses[p[1]].id = db.orders[p[2]].billing_address_id
        /\ db.addresses[p[1]].type = BILLING}

\* The rows of the shipping join: Address JOIN order_shipping_addresses ON
\* Address.id = address_id JOIN Order ON order_id = Order.id WHERE
\* Address.type = SHIPPING, as (address, association row, order) positions.
shipping_join(db) ==
    {p \in (1..Len(db.addresses)) \X (1..Len(db.order_shipping_addresses))
            \X (1..Len(db.orders)) :
        /\ db.addresses[p[1]].id = db.order_shipping_addresses[p[2]].address_id
        /\ db.order_shipping_addresses[p[2]].order_id = db.orders[p[3]].id
        /\ db.addresses[p[1]].type = SHIPPING}

\* GROUP BY Address.zip_code with count(Order.id): one group per zip code
\* that a joined row has, counting the joined rows of the group.
group_by_zip_code(db, joined) ==
    {[zip_code |-> z,
      order_count |-> Cardinality({p \in joined : db.addresses[p[1]].zip_code = z})] :
        z \in {db.addresses[p[1]].zip_code : p \in joined}}

\* Mutant: the direction is ignored and the listing is always ascending.
order_by_count_ascending(groups, ascending) ==
    {s \in [1..Cardinality(groups) -> groups] :
        /\ \A i, j \in DOMAIN s : i # j => s[i] # s[j]
        /\ \A i, j \in DOMAIN s : i < j => s[i].order_count <= s[j].order_count}

\* ORDER BY order_count ASC | DESC: every listing of the groups in that
\* order; the store is free in how it lists groups of equal count.
order_by_count(groups, ascending) ==
    {s \in [1..Cardinality(groups) -> groups] :
        /\ \A i, j \in DOMAIN s : i # j => s[i] # s[j]
        /\ \A i, j \in DOMAIN s :
               i < j => IF ascending
                        THEN s[i].order_count <= s[j].order_count
                        ELSE s[i].order_count >= s[j].order_count}

\* crud.get_orders_by_zip_code: the set of results the query may return.
get_orders_by_zip_code(db, is_billing, ascending) ==
    order_by_count(group_by_zip_code(db, IF is_billing THEN billing_join(db)
                                                       ELSE shipping_join(db)),
                   ascending)

-----------------------------------------------------------------------------
(* In-store purchase hours. *)

HoursPerDay == 24

\* Mutant: the timestamp itself is taken for its hour.
extract_hour_of_epoch(t) == t

\* extract('hour', Order.created_at): the hour of day of a timestamp.
extract_hour(t) == t % HoursPerDay

\* .filter(Order.order_type == OrderType.IN_STORE) over the orders table.
in_store_orders(db) ==
    SelectSeq(db.orders, LAMBDA o : o.order_type = IN_STORE)

\* GROUP BY extract('hour', created_at) with count(Order.id): one group per
\* hour that a row has, counting the rows of the group.
group_by_hour(rows) ==
    {[hour |-> h,
      order_count |-> Cardinality({i \in 1..Len(rows) :
                                      extract_hour(rows[i].created_at) = h})] :
        h \in {extract_hour(rows[i].created_at) : i \in 1..Len(rows)}}

\* crud.get_in_store_purchase_hours: the set of results the query may return.
get_in_store_purchase_hours(db) ==
    order_by_count(group_by_hour(in_store_orders(db)), FALSE)

\* main.get_in_store_hours: GET /analytics/in-store/hours/
main_get_in_store_hours(db) == get_in_store_purchase_hours(db)

-----------------------------------------------------------------------------
(* Top in-store customers. *)

\* The default of the parameter "limit: int = 5".
DefaultLimit == 5

\* Mutant: the filter on the order type is missing.
in_store_join_any_type(db) ==
    {p \in (1..Len(db.customers)) \X (1..Len(db.orders)) :
        db.customers[p[1]].id = db.orders[p[2]].customer_id}

\* The rows of Customer JOIN Order ON Customer.id = Order.customer_id WHERE
\* Order.order_type = IN_STORE, as (customer position, order position).
in_store_join(db) ==
    {p \in (1..Len(db.customers)) \X (1..Len(db.orders)) :
        /\ db.customers[p[1]].id = db.orders[p[2]].customer_id
        /\ db.orders[p[2]].order_type = IN_STORE}

\* GROUP BY Customer.id, first_name, last_name with count(Order.id): one
\* group per customer that a joined row has, counting its joined rows.
group_by_customer(db, joined) ==
    {[customer_id |-> db.customers[i].id,
      first_name |-> db.customers[i].first_name,
      last_name |-> db.customers[i].last_name,
      order_count |-> Cardinality({p \in joined : p[1] = i})] :
        i \in {p[1] : p \in joined}}

\* Query.limit(k): the first k rows of the listing, or all if it has fewer.
limit_rows(rows, k) == SubSeq(rows, 1, IF k < Len(rows) THEN k ELSE Len(rows))

\* crud.get_top_in_store_customers: the set of results the query may return.
crud_get_top_in_store_customers(db, limit) ==
    {limit_rows(s, limit) :
        s \in order_by_count(group_by_customer(db, in_store_join(db)), FALSE)}

\* main.get_top_in_store_customers: GET /analytics/in-store/top-customers/.
\* The handler declares no parameter but the Session: a "limit" in the query
\* string of the request is not read, and crud is called with its default.
main_get_top_in_store_customers(db, query_limit) ==
    crud_get_top_in_store_customers(db, DefaultLimit)

-----------------------------------------------------------------------------
(* State and requests. *)

\* The concurrent requests of SpecTx.
Requests == {"r1", "r2"}

\* A request that is not running: get_db has closed its Session.
Idle(resp) ==
    [pc |-> "idle", customer |-> None, tx |-> None, db_customer |-> None,
     inserted |-> 0, response |-> resp]

\* The state after models.Base.metadata.create_all: empty tables.  Whether
\* the store enforces the FOREIGN KEY clauses is a property of the engine.
InitStore(fk) ==
    /\ customers = <<>>
    /\ addresses = <<>>
    /\ orders = <<>>
    /\ order_shipping_addresses = <<>>
    /\ now = 0
    /\ fk_enforced \in fk
    /\ request = None
    /\ response = NoResponse
    /\ session = [r \in Requests |-> Idle(NoResponse)]

\* The engine of tests/test_api.py: SQLite, which enforces no foreign key
\* unless asked to.
Init == InitStore({FALSE})

\* No request of SpecTx is inside a write transaction.
NoWriter == \A r \in Requests : session[r].pc # "flushed"

Store(db) ==
    /\ customers' = db.customers
    /\ addresses' = db.addresses
    /\ orders' = db.orders
    /\ order_shipping_addresses' = db.order_shipping_addresses

\* The store's clock advances.
Tick ==
    /\ now < MaxTime
    /\ now' = now + 1
    /\ UNCHANGED <<tables, fk_enforced, request, response, session>>

\* POST /customers/, handled from the request to the response.
CreateCustomer(customer) ==
    LET r == main_create_customer(DB, now, customer)
    IN  /\ NoWriter
        /\ Len(r.db.customers) <= MaxCustomers
        /\ Store(r.db)
        /\ request' = None
        /\ response' = r.response
        /\ UNCHANGED <<now, fk_enforced, session>>

\* POST /customers/{customer_id}/orders/
CreateOrder(customer_id, order) ==
    LET r == main_create_order(DB, now, fk_enforced, customer_id, order)
    IN  /\ NoWriter
        /\ Len(r.db.orders) <= MaxOrders
        /\ Store(r.db)
        /\ request' = <<[customer_id |-> customer_id, order |-> order]>>
        /\ response' = r.response
        /\ UNCHANGED <<now, fk_enforced, session>>

\* Mutant: the lookup stamps the row it found.
GetCustomerByEmail_stamping(email) ==
    /\ response' = LET c == get_customer_by_email(DB, email)
                   IN  OK("get_customer_by_email",
                          IF c = None THEN None ELSE <<schemas_Customer(DB, c[1])>>)
    /\ customers' = [i \in 1..Len(customers) |->
                        IF customers[i].email = email
                        THEN [customers[i] EXCEPT !.updated_at = <<now>>]
                        ELSE customers[i]]
    /\ request' = None
    /\ UNCHANGED <<addresses, orders, order_shipping_addresses, now, fk_enforced, session>>

\* crud.get_customer_by_email, called on its own.
GetCustomerByEmail(email) ==
    /\ response' = LET c == get_customer_by_email(DB, email)
                   IN  OK("get_customer_by_email",
                          IF c = None THEN None ELSE <<schemas_Customer(DB, c[1])>>)
    /\ request' = None
    /\ UNCHANGED <<tables, now, fk_enforced, session>>

\* crud.get_customer_by_telephone, called on its own.
GetCustomerByTelephone(telephone) ==
    /\ response' = LET c == get_customer_by_telephone(DB, telephone)
                   IN  OK("get_customer_by_telephone",
                          IF c = None THEN None ELSE <<schemas_Customer(DB, c[1])>>)
    /\ request' = None
    /\ UNCHANGED <<tables, now, fk_enforced, session>>

\* GET /customers/history/
GetCustomerOrderHistory(identifier, is_email) ==
    /\ request' = None
    /\ response' = main_get_customer_order_history(DB, identifier, is_email)
    /\ UNCHANGED <<tables, now, fk_enforced, session>>

\* GET /analytics/orders/by-zip/
GetOrdersByZip(is_billing, ascending) ==
    /\ \E result \in get_orders_by_zip_code(DB, is_billing, ascending) :
           response' = OK(IF is_billing THEN "get_orders_by_zip:billing"
                                        ELSE "get_orders_by_zip:shipping", result)
    /\ request' = None
    /\ UNCHANGED <<tables, now, fk_enforced, session>>

\* A day passes on the store's clock.
NextDay ==
    /\ now < MaxDays * HoursPerDay
    /\ now' = now + HoursPerDay
    /\ UNCHANGED <<tables, fk_enforced, request, response, session>>

\* POST /customers/{customer_id}/orders/ where the analytics are explored,
\* which count more orders than the other explorations need.
PlaceOrder(customer_id, order) ==
    LET r == main_create_order(DB, now, fk_enforced, customer_id, order)
    IN  /\ NoWriter
        /\ Len(r.db.orders) <= MaxPurchases
        /\ Store(r.db)
        /\ request' = <<[customer_id |-> customer_id, order |-> order]>>
        /\ response' = r.response
        /\ UNCHANGED <<now, fk_enforced, session>>

\* GET /analytics/in-store/hours/
GetInStoreHours ==
    /\ \E result \in main_get_in_store_hours(DB) :
           response' = OK("get_in_store_hours", result)
    /\ request' = None
    /\ UNCHANGED <<tables, now, fk_enforced, session>>

\* crud.get_top_in_store_customers, called on its own with a limit.
TopInStoreCustomers(limit) ==
    /\ \E result \in crud_get_top_in_store_customers(DB, limit) :
           response' = OK("crud.get_top_in_store_customers", result)
    /\ request' = <<[limit |-> limit]>>
    /\ UNCHANGED <<tables, now, fk_enforced, session>>

\* GET /analytics/in-store/top-customers/ with or without "?limit=k".
GetTopInStoreCustomers(query_limit) ==
    /\ \E result \in main_get_top_in_store_customers(DB, query_limit) :
           response' = OK("get_top_in_store_customers", result)
    /\ request' = <<[limit |-> query_limit]>>
    /\ UNCHANGED <<tables, now, fk_enforced, session>>

-----------------------------------------------------------------------------
(* Customers: POST /customers/ and the two lookups, as the clock advances.  *)

HomeAddresses ==
    AddressCreate({BILLING}, {"12345"}) \cup AddressCreate({SHIPPING}, {"98765"})

SpecCustomerInputs ==
    CustomerCreate(Emails, Telephones, SeqUpTo(HomeAddresses, MaxAddrs))

Next ==
    \/ \E customer \in SpecCustomerInputs : CreateCustomer(customer)
    \/ \E email \in Emails : GetCustomerByEmail(email)
    \/ \E telephone \in Telephones : GetCustomerByTelephone(telephone)
    \/ Tick

Spec == Init /\ [][Next]_vars

-----------------------------------------------------------------------------
(* Concurrent requests.  POST /customers/ runs statement by statement in    *)
(* its own Session: the pre-check of main.create_customer reads the         *)
(* committed tables; db.flush() opens the write transaction, which the      *)
(* store grants to one Session at a time; the rows of a transaction reach   *)
(* the tables at db.commit(); an exception leaves the handler, get_db       *)
(* closes the Session and the transaction is rolled back.                   *)

SetSession(r, s) == session' = [session EXCEPT ![r] = s]

\* main.create_customer up to the call of crud.create_customer.
TxBegin(r, customer) ==
    /\ session[r].pc = "idle"
    /\ IF get_customer_by_email(DB, customer.email) # None
       THEN SetSession(r, Idle(HTTPException("create_customer", 400,
                                             "Email already registered")))
       ELSE IF get_customer_by_telephone(DB, customer.telephone) # None
       THEN SetSession(r, Idle(HTTPException("create_customer", 400,
                                             "Telephone already registered")))
       ELSE /\ Len(customers) < MaxCustomers
            /\ SetSession(r, [pc |-> "checked", customer |-> <<customer>>,
                              tx |-> None, db_customer |-> None, inserted |-> 0,
                              response |-> NoResponse])
    /\ UNCHANGED <<tables, now, fk_enforced, request, response>>

\* db.add(db_customer); db.flush()
TxFlush(r) ==
    /\ session[r].pc = "checked"
    /\ NoWriter
    /\ Len(customers) < MaxCustomers
    /\ LET f == flush_customer(DB, now, session[r].customer[1])
       IN  IF f.raised # ""
           THEN SetSession(r, Idle(InternalServerError("create_customer", f.raised)))
           ELSE SetSession(r, [session[r] EXCEPT !.pc = "flushed",
                                                 !.tx = <<f.db>>,
                                                 !.db_customer = f.db_customer])
    /\ UNCHANGED <<tables, now, fk_enforced, request, response>>

\* The INSERT of the next address row of the request.
TxAddAddress(r) ==
    /\ session[r].pc = "flushed"
    /\ session[r].inserted < Len(session[r].customer[1].addresses)
    /\ SetSession(r, [session[r] EXCEPT
            !.inserted = @ + 1,
            !.tx = <<add_address(session[r].tx[1], now, session[r].db_customer[1].id,
                                 session[r].customer[1].addresses[session[r].inserted + 1])>>])
    /\ UNCHANGED <<tables, now, fk_enforced, request, response>>

\* The COMMIT of db.commit(), then db.refresh and the response.
TxCommit(r) ==
    /\ session[r].pc = "flushed"
    /\ session[r].inserted = Len(session[r].customer[1].addresses)
    /\ Store(session[r].tx[1])
    /\ SetSession(r, Idle(OK("create_customer",
                             <<schemas_Customer(session[r].tx[1],
                                                session[r].db_customer[1])>>)))
    /\ UNCHANGED <<now, fk_enforced, request, response>>

\* Mutant: the rows inserted so far stay in the tables when a statement
\* fails (no rollback).
TxStoreFailure_no_rollback(r) ==
    /\ session[r].pc \in {"checked", "flushed"}
    /\ IF session[r].pc = "flushed"
       THEN Store(session[r].tx[1])
       ELSE UNCHANGED tables
    /\ SetSession(r, Idle(InternalServerError("create_customer", "OperationalError")))
    /\ UNCHANGED <<now, fk_enforced, request, response>>

\* The store fails a statement of the request (connection loss, lock
\* timeout): the exception ends the request and its transaction.
TxStoreFailure(r) ==
    /\ session[r].pc \in {"checked", "flushed"}
    /\ SetSession(r, Idle(InternalServerError("create_customer",
            IF session[r].pc = "checked" THEN "OperationalError: flush"
            ELSE IF session[r].inserted < Len(session[r].customer[1].addresses)
            THEN "OperationalError: insert address"
            ELSE "OperationalError: commit")))
    /\ UNCHANGED <<tables, now, fk_enforced, request, response>>

TxAddressLists ==
    {<<>>} \cup {l \in [1..MaxAddrs -> HomeAddresses] : l[1].type = BILLING}

TxCustomerInputs == CustomerCreate(Emails, Telephones, TxAddressLists)

\* Orders of the first customer, placed between the steps of the requests.
TxOrderInputs == OrderCreate({IN_STORE}, {1}, {})

NextTx ==
    \/ \E r \in Requests, customer \in TxCustomerInputs : TxBegin(r, customer)
    \/ \E r \in Requests : TxFlush(r)
    \/ \E r \in Requests : TxAddAddress(r)
    \/ \E r \in Requests : TxCommit(r)
    \/ \E r \in Requests : TxStoreFailure(r)
    \/ \E order \in TxOrderInputs : CreateOrder(1, order)

SpecTx == Init /\ [][NextTx]_vars

-----------------------------------------------------------------------------
(* Orders: one customer and its addresses, and POST .../orders/ with any    *)
(* customer id, billing address id and list of shipping address ids, on a   *)
(* store that enforces foreign keys and on one that does not.               *)

InitOrders == InitStore(BOOLEAN)

OrdersCustomerInputs ==
    CustomerCreate({"a@x.com"}, {"111"},
                   SeqUpTo(AddressCreate({SHIPPING}, {"98765"}), MaxAddrs))

\* The ids the addresses can have, and one that no address has.
AddressIds == 1..(MaxAddrs + 1)

\* The id of the customer, and one that no customer has.
OrdersCustomerIds == {1, 2}

OrdersOrderInputs == OrderCreate({IN_STORE}, AddressIds, AddressIds)

NextOrders ==
    \/ \E customer \in OrdersCustomerInputs : CreateCustomer(customer)
    \/ \E customer_id \in OrdersCustomerIds, order \in OrdersOrderInputs :
            CreateOrder(customer_id, order)

SpecOrders == InitOrders /\ [][NextOrders]_vars

-----------------------------------------------------------------------------
(* Order history: customers with or without a billing address, orders for   *)
(* any customer id, and GET /customers/history/ by email and by telephone.  *)

HistoryCustomerInputs ==
    CustomerCreate(Emails, Telephones,
                   SeqUpTo(AddressCreate({BILLING}, {"12345"}), MaxAddrs))

\* The ids the customers can have, and one that no customer has.
HistoryCustomerIds == 1..(MaxCustomers + 1)

HistoryOrderInputs == OrderCreate({IN_STORE}, {1}, {})

\* The emails and telephones, and a string that is a part of one.
HistoryIdentifiers == Emails \cup Telephones \cup {"a@x.co"}

NextHistory ==
    \/ \E customer \in HistoryCustomerInputs : CreateCustomer(customer)
    \/ \E customer_id \in HistoryCustomerIds, order \in HistoryOrderInputs :
            CreateOrder(customer_id, order)
    \/ \E identifier \in HistoryIdentifiers, is_email \in BOOLEAN :
            GetCustomerOrderHistory(identifier, is_email)

SpecHistory == InitOrders /\ [][NextHistory]_vars

-----------------------------------------------------------------------------
(* Orders by zip code: one customer with addresses of both types in two zip *)
(* codes, orders billed and shipped to them, and GET                        *)
(* /analytics/orders/by-zip/ in its four variants.                          *)

ZipCustomerInputs ==
    CustomerCreate({"a@x.com"}, {"111"},
                   SeqUpTo(AddressCreate(AddressType, ZipCodes), MaxAddrs))

ZipOrderInputs == OrderCreate({IN_STORE}, AddressIds, AddressIds)

NextZip ==
    \/ \E customer \in ZipCustomerInputs : CreateCustomer(customer)
    \/ \E order \in ZipOrderInputs : CreateOrder(1, order)
    \/ \E is_billing \in BOOLEAN, ascending \in BOOLEAN :
            GetOrdersByZip(is_billing, ascending)

SpecZip == Init /\ [][NextZip]_vars

-----------------------------------------------------------------------------
(* Top in-store customers: two customers, orders of both types for them and *)
(* for a customer id that no customer has, and the top-k query, called with *)
(* a limit and through GET /analytics/in-store/top-customers/.              *)

BillingAddressList == {<<a>> : a \in AddressCreate({BILLING}, {"12345"})}

TopCustomerInputs ==
    {c \in CustomerCreate(Emails, Telephones, BillingAddressList) :
        c.email = "a@x.com" <=> c.telephone = "111"}

TopOrderInputs == OrderCreate(OrderType, {1}, {})

\* The limits a caller passes.
TopLimits == 1..MaxCustomers

\* The "limit" of the query string: absent, or one of the limits.
QueryLimits == {None} \cup {<<k>> : k \in TopLimits}

NextTop ==
    \/ \E customer \in TopCustomerInputs : CreateCustomer(customer)
    \/ \E customer_id \in HistoryCustomerIds, order \in TopOrderInputs :
            PlaceOrder(customer_id, order)
    \/ \E limit \in TopLimits : TopInStoreCustomers(limit)
    \/ \E query_limit \in QueryLimits : GetTopInStoreCustomers(query_limit)

SpecTop == Init /\ [][NextTop]_vars

-----------------------------------------------------------------------------
(* In-store purchase hours: orders of both types placed at different hours  *)
(* and on different days, and GET /analytics/in-store/hours/.               *)

HoursCustomerInputs == {c \in TopCustomerInputs : c.email = "a@x.com"}

NextHours ==
    \/ \E customer \in HoursCustomerInputs : CreateCustomer(customer)
    \/ \E order \in TopOrderInputs : PlaceOrder(1, order)
    \/ Tick
    \/ NextDay
    \/ GetInStoreHours

SpecHours == Init /\ [][NextHours]_vars

-----------------------------------------------------------------------------
(* Every operation of the application: the two POST handlers, the lookups, *)
(* the order history and the three analytics, as the clock advances.        *)

HomeAddressList ==
    {<<b, s>> : b \in AddressCreate({BILLING}, {"12345"}),
                s \in AddressCreate({SHIPPING}, {"98765"})}

ApiCustomerInputs ==
    {c \in CustomerCreate(Emails, Telephones, HomeAddressList) :
        c.email = "a@x.com" <=> c.telephone = "111"}

\* Orders billed to address 1 and shipped to address 2.
ApiOrderInputs == OrderCreate({IN_STORE}, {1}, {2})

NextApi ==
    \/ \E customer \in ApiCustomerInputs : CreateCustomer(customer)
    \/ \E order \in ApiOrderInputs : CreateOrder(1, order)
    \/ \E email \in Emails : GetCustomerByEmail(email)
    \/ \E telephone \in Telephones : GetCustomerByTelephone(telephone)
    \/ \E identifier \in HistoryIdentifiers, is_email \in BOOLEAN :
            GetCustomerOrderHistory(identifier, is_email)
    \/ \E is_billing \in BOOLEAN, ascending \in BOOLEAN :
            GetOrdersByZip(is_billing, ascending)
    \/ GetInStoreHours
    \/ \E query_limit \in QueryLimits : GetTopInStoreCustomers(query_limit)
    \/ Tick

SpecApi == Init /\ [][NextApi]_vars

-----------------------------------------------------------------------------
(* Properties. *)

\* The fields a request carries for a row.
SameCustomerFields(row, customer) ==
    /\ row.telephone = customer.telephone
    /\ row.email = customer.email
    /\ row.first_name = customer.first_name
    /\ row.last_name = customer.last_name

SameAddressFields(row, address) ==
    /\ row.type = address.type
    /\ row.street = address.street
    /\ row.city = address.city
    /\ row.state = address.state
    /\ row.zip_code = address.zip_code

Registered(customer) ==
    \E i \in 1..Len(customers) :
        \/ customers[i].email = customer.email
        \/ customers[i].telephone = customer.telephone

\* C1: a create-customer request for an email or a telephone that a stored
\* customer has is answered 400 "... already registered", and leaves every
\* table as it was: no customer row and no address row is added, the stored
\* customers and addresses are the same rows, and a registered email still
\* has exactly one row.
C1_DuplicateRejected ==
    \A customer \in SpecCustomerInputs :
        Registered(customer) =>
            LET r == main_create_customer(DB, now, customer)
            IN  /\ r.response.status_code = 400
                /\ r.response.detail \in {"Email already registered",
                                          "Telephone already registered"}
                /\ r.db = DB
                /\ (get_customer_by_email(DB, customer.email) # None =>
                        Cardinality({i \in 1..Len(r.db.customers) :
                                        r.db.customers[i].email = customer.email}) = 1)

\* A duplicate was answered 400 with a customer and its addresses stored.
C1_Witness ==
    /\ response.operation = "create_customer"
    /\ response.status_code = 400
    /\ Len(customers) = 1
    /\ Len(addresses) = MaxAddrs

\* C2: no two distinct customer rows have the same email, and no two have
\* the same telephone.
C2_UniqueEmailTelephone ==
    \A i, j \in 1..Len(customers) :
        i # j => /\ customers[i].email # customers[j].email
                 /\ customers[i].telephone # customers[j].telephone

\* Two customers are stored, an order too, and a request that had passed the
\* pre-check was rejected by the store at its INSERT.
C2_Witness ==
    /\ Len(customers) = 2
    /\ Len(orders) > 0
    /\ \E r \in Requests : session[r].response.detail = "IntegrityError"

\* C3: a step changes the customers or addresses tables only by committing
\* one request's transaction, which appends the request's customer row and
\* all of its address rows and answers 200; a request that ends in a
\* failure leaves the tables as they were.
C3_AllOrNothing ==
    [][/\ \/ UNCHANGED <<customers, addresses>>
          \/ \E r \in Requests :
                /\ session[r].pc = "flushed"
                /\ session'[r].response.status_code = 200
                /\ LET customer == session[r].customer[1]
                       n == Len(customer.addresses)
                       id == Len(customers) + 1
                   IN  /\ Len(customers') = id
                       /\ SubSeq(customers', 1, Len(customers)) = customers
                       /\ customers'[id].id = id
                       /\ SameCustomerFields(customers'[id], customer)
                       /\ Len(addresses') = Len(addresses) + n
                       /\ SubSeq(addresses', 1, Len(addresses)) = addresses
                       /\ \A k \in 1..n :
                            /\ addresses'[Len(addresses) + k].customer_id = id
                            /\ SameAddressFields(addresses'[Len(addresses) + k],
                                                 customer.addresses[k])
       /\ \A r \in Requests :
            (session'[r] # session[r] /\ session'[r].response.status_code \in {400, 500})
                => UNCHANGED <<customers, addresses>>]_vars

\* One request committed a customer with all its addresses; the other
\* failed at its commit, after it had inserted its rows, and none is stored.
C3_Witness ==
    \E r1, r2 \in Requests :
        /\ session[r1].response.status_code = 200
        /\ Len(session[r1].response.body[1].addresses) = MaxAddrs
        /\ session[r2].response.detail = "OperationalError: commit"
        /\ Len(customers) = 1
        /\ Len(addresses) = MaxAddrs

\* C6: a create-customer request answered 200 added one customer row and N
\* address rows, and find-by-email with its email returns a customer with
\* the submitted fields, a new id, the time of the request as created_at,
\* and N addresses that carry the submitted address fields, each once, and
\* the customer's id.
C6_CreateThenFetch ==
    \A customer \in SpecCustomerInputs :
        LET r == main_create_customer(DB, now, customer)
            n == Len(customer.addresses)
        IN  r.response.status_code = 200 =>
              /\ Len(r.db.customers) = Len(customers) + 1
              /\ Len(r.db.addresses) = Len(addresses) + n
              /\ LET found == get_customer_by_email(r.db, customer.email)
                 IN  /\ found # None
                     /\ LET c == schemas_Customer(r.db, found[1])
                        IN  /\ SameCustomerFields(c, customer)
                            /\ c.id \notin Ids(customers)
                            /\ c.created_at = now
                            /\ Len(c.addresses) = n
                            /\ \E f \in Permutations(1..n) :
                                 \A k \in 1..n :
                                    /\ SameAddressFields(c.addresses[f[k]],
                                                         customer.addresses[k])
                                    /\ c.addresses[k].customer_id = c.id
                                    /\ c.addresses[k].id \notin Ids(addresses)

\* The second customer was created with two addresses, after the clock had
\* advanced, and is the one find-by-email returns for its email.
C6_Witness ==
    /\ response.operation = "create_customer"
    /\ response.status_code = 200
    /\ Len(customers) = 2
    /\ response.body[1].id = 2
    /\ response.body[1].created_at = MaxTime
    /\ Len(response.body[1].addresses) = MaxAddrs
    /\ get_customer_by_email(DB, response.body[1].email) = <<customers[2]>>

\* The association rows a create-order call added to the table.
AddedLinks(db) ==
    SubSeq(db.order_shipping_addresses, Len(order_shipping_addresses) + 1,
           Len(db.order_shipping_addresses))

\* The ids of the request's list that name a stored address.
ExistingShippingIds(order) == Range(order.shipping_address_ids) \cap Ids(addresses)

\* C4: a create-order call that inserts the order adds one association row
\* (order, address) per distinct id of the list that names a stored address
\* and no other; the ids that name no address change neither the rows nor
\* the answer; a call that inserts no order adds no association row; and
\* an order returned with 200 carries the billing address of the given id
\* and exactly the attached shipping addresses.
C4_AttachesExistingShipping ==
    \A customer_id \in OrdersCustomerIds, order \in OrdersOrderInputs :
        LET r == main_create_order(DB, now, fk_enforced, customer_id, order)
            id == Len(orders) + 1
            added == AddedLinks(r.db)
            existing == ExistingShippingIds(order)
            cleaned == [order EXCEPT !.shipping_address_ids =
                            SelectSeq(@, LAMBDA a : a \in Ids(addresses))]
            r_cleaned == main_create_order(DB, now, fk_enforced, customer_id, cleaned)
        IN  /\ SubSeq(r.db.order_shipping_addresses, 1, Len(order_shipping_addresses))
                 = order_shipping_addresses
            /\ IF Len(r.db.orders) = id
               THEN /\ Range(added) = {[order_id |-> id, address_id |-> a] : a \in existing}
                    /\ Len(added) = Cardinality(existing)
               ELSE added = <<>>
            /\ r.db = r_cleaned.db
            /\ r.response.status_code = r_cleaned.response.status_code
            /\ r.response.status_code = 200 =>
                 LET body == r.response.body[1]
                 IN  /\ body.id = id
                     /\ body.billing_address[1].id = order.billing_address_id
                     /\ Len(body.shipping_addresses) = Cardinality(existing)
                     /\ Ids(body.shipping_addresses) = existing

\* An order was asked for with a list of one stored address id and one id
\* that no address has; it was returned with its billing address
\* and the one shipping address, and one association row was added.
C4_Witness ==
    /\ request # None
    /\ response.operation = "create_order"
    /\ response.status_code = 200
    /\ \E a \in Ids(addresses), b \in AddressIds \ Ids(addresses) :
          /\ request[1].order.shipping_address_ids \in {<<a, b>>, <<b, a>>}
          /\ Ids(response.body[1].shipping_addresses) = {a}
          /\ Len(SelectSeq(order_shipping_addresses,
                        LAMBDA l : l.order_id = response.body[1].id)) = 1
    /\ Len(orders) = MaxOrders
    /\ Len(order_shipping_addresses) > 1

\* C5: the billing_address_id of every order row is the id of an address
\* row.
C5_BillingAddressExists ==
    \A i \in 1..Len(orders) : orders[i].billing_address_id \in Ids(addresses)

\* The stored customers whose selected field is the identifier.
Matching(identifier, is_email) ==
    {i \in 1..Len(customers) :
        (IF is_email THEN customers[i].email ELSE customers[i].telephone) = identifier}

\* C7: order-history answers 404 exactly when no stored customer has the
\* identifier as its email (is_email) or its telephone (otherwise); for a
\* customer without orders it answers 200 with that customer and an empty
\* list of orders.
C7_NotFoundIffNoCustomer ==
    \A identifier \in HistoryIdentifiers, is_email \in BOOLEAN :
        LET resp == main_get_customer_order_history(DB, identifier, is_email)
            matching == Matching(identifier, is_email)
        IN  /\ resp.status_code = 404 <=> matching = {}
            /\ \A i \in matching :
                 (\A k \in 1..Len(orders) : orders[k].customer_id # customers[i].id)
                    => /\ resp.status_code = 200
                       /\ resp.body[1].customer.id = customers[i].id
                       /\ resp.body[1].orders = <<>>

\* The history of a customer without orders was returned while another
\* customer has orders, and a telephone asked for as an email is not found.
C7_Witness ==
    /\ response.operation = "get_customer_order_history"
    /\ response.status_code = 200
    /\ response.body[1].orders = <<>>
    /\ Len(orders) = MaxOrders
    /\ main_get_customer_order_history(DB, response.body[1].customer.telephone,
                                       TRUE).status_code = 404

\* C8: the orders of a history answered with 200 are the order rows whose
\* customer_id is the id of the returned customer: each of them, once, and
\* no other.
C8_HistoryComplete ==
    \A identifier \in HistoryIdentifiers, is_email \in BOOLEAN :
        LET resp == main_get_customer_order_history(DB, identifier, is_email)
        IN  resp.status_code = 200 =>
              LET history == resp.body[1]
                  own == {k \in 1..Len(orders) :
                            orders[k].customer_id = history.customer.id}
              IN  /\ Matching(identifier, is_email) = {history.customer.id}
                  /\ Ids(history.orders) = {orders[k].id : k \in own}
                  /\ Len(history.orders) = Cardinality(own)
                  /\ \A k \in 1..Len(history.orders) :
                        history.orders[k].customer_id = history.customer.id

\* The history of the second customer was returned with its order, the
\* second of the table, while the first order is another customer's.
C8_Witness ==
    /\ response.operation = "get_customer_order_history"
    /\ response.status_code = 200
    /\ response.body[1].customer.id = 2
    /\ Ids(response.body[1].orders) = {2}
    /\ Len(orders) = 2
    /\ orders[1].customer_id = 1

\* The count of a zip code: the orders whose billing address is a BILLING
\* address of the zip code, or the association rows whose address is a
\* SHIPPING address of the zip code.
BillingCount(z) ==
    Cardinality({k \in 1..Len(orders) :
        \E a \in Range(addresses) :
            a.id = orders[k].billing_address_id /\ a.type = BILLING /\ a.zip_code = z})

ShippingCount(z) ==
    Cardinality({k \in 1..Len(order_shipping_addresses) :
        \E a \in Range(addresses) :
            /\ a.id = order_shipping_addresses[k].address_id
            /\ a.type = SHIPPING
            /\ a.zip_code = z})

SortedByCount(result, ascending) ==
    \A i, j \in 1..Len(result) :
        i < j => IF ascending THEN result[i].order_count <= result[j].order_count
                              ELSE result[i].order_count >= result[j].order_count

\* C9: orders-by-zip returns one pair per zip code whose count is not zero,
\* with that count (orders by BILLING billing address, or association rows
\* by SHIPPING address), sorted by count in the requested direction.
C9_OrdersByZip ==
    \A is_billing \in BOOLEAN, ascending \in BOOLEAN :
        /\ get_orders_by_zip_code(DB, is_billing, ascending) # {}
        /\ \A result \in get_orders_by_zip_code(DB, is_billing, ascending) :
            /\ \A z \in ZipCodes :
                 LET count == IF is_billing THEN BillingCount(z) ELSE ShippingCount(z)
                     pairs == {i \in 1..Len(result) : result[i].zip_code = z}
                 IN  /\ Cardinality(pairs) = IF count > 0 THEN 1 ELSE 0
                     /\ \A i \in pairs : result[i].order_count = count
            /\ \A i \in 1..Len(result) : result[i].zip_code \in ZipCodes
            /\ SortedByCount(result, ascending)

\* The shipping counts were returned for two zip codes, the greater count
\* first, and they are the numbers of association rows.
C9_Witness ==
    /\ response.operation = "get_orders_by_zip:shipping"
    /\ Len(response.body) = 2
    /\ response.body[1].order_count > response.body[2].order_count
    /\ response.body[1].order_count + response.body[2].order_count
            = Len(order_shipping_addresses)

\* The zip codes an order ships to: those of its attached SHIPPING addresses.
ShipsTo(order_id) ==
    {a.zip_code : a \in {b \in Range(addresses) :
        /\ b.type = SHIPPING
        /\ \E k \in 1..Len(order_shipping_addresses) :
              /\ order_shipping_addresses[k].order_id = order_id
              /\ order_shipping_addresses[k].address_id = b.id}}

\* C10: in the shipping case the count of a zip code is the number of orders
\* that ship to it: an order adds 1 to the count of each distinct zip code
\* of its SHIPPING addresses, also when two of them share the zip code.
C10_OnePerDistinctZip ==
    \A ascending \in BOOLEAN :
        \A result \in get_orders_by_zip_code(DB, FALSE, ascending) :
            \A i \in 1..Len(result) :
                result[i].order_count =
                    Cardinality({k \in 1..Len(orders) :
                                    result[i].zip_code \in ShipsTo(orders[k].id)})

\* The number of IN_STORE orders of a customer id.
InStoreCount(customer_id) ==
    Cardinality({k \in 1..Len(orders) :
        orders[k].customer_id = customer_id /\ orders[k].order_type = IN_STORE})

\* The stored customers that have an IN_STORE order.
InStoreCustomers == {c \in Range(customers) : InStoreCount(c.id) > 0}

Min(a, b) == IF a < b THEN a ELSE b

\* C11: top-in-store-customers with limit k returns min(k, number of
\* customers with an IN_STORE order) entries, each for another such customer,
\* with the customer's names and its number of IN_STORE orders as the count,
\* sorted by count non-increasing, and no customer left out has more
\* IN_STORE orders than a returned one.
C11_TopInStoreCustomers ==
    \A k \in TopLimits :
        /\ crud_get_top_in_store_customers(DB, k) # {}
        /\ \A result \in crud_get_top_in_store_customers(DB, k) :
            /\ Len(result) = Min(k, Cardinality(InStoreCustomers))
            /\ \A i, j \in 1..Len(result) :
                    i # j => result[i].customer_id # result[j].customer_id
            /\ \A i \in 1..Len(result) :
                    /\ \E c \in InStoreCustomers :
                            /\ c.id = result[i].customer_id
                            /\ c.first_name = result[i].first_name
                            /\ c.last_name = result[i].last_name
                    /\ result[i].order_count = InStoreCount(result[i].customer_id)
            /\ SortedByCount(result, FALSE)
            /\ \A c \in InStoreCustomers :
                    (\A i \in 1..Len(result) : result[i].customer_id # c.id)
                        => \A i \in 1..Len(result) :
                                InStoreCount(c.id) <= result[i].order_count

\* The top 1 was asked for and is the customer with two IN_STORE orders,
\* while another customer has one IN_STORE order and is left out.
C11_Witness ==
    /\ response.operation = "crud.get_top_in_store_customers"
    /\ request[1].limit = 1
    /\ Len(response.body) = 1
    /\ response.body[1].order_count = 2
    /\ \E c \in InStoreCustomers :
            c.id # response.body[1].customer_id /\ InStoreCount(c.id) = 1

\* C12: GET /analytics/in-store/top-customers/ answers a request that
\* carries the limit k with the core result for k, which has at most k
\* entries, and a request without a limit with the core result for 5.
C12_LimitExposed ==
    \A query_limit \in QueryLimits :
        LET k == IF query_limit = None THEN DefaultLimit ELSE query_limit[1]
        IN  /\ main_get_top_in_store_customers(DB, query_limit)
                    = crud_get_top_in_store_customers(DB, k)
            /\ \A result \in main_get_top_in_store_customers(DB, query_limit) :
                    Len(result) <= k

\* The hour of day of a timestamp: what is left of it after whole days.
HourOfDay(t) == CHOOSE h \in 0..(HoursPerDay - 1) : \E d \in 0..t : t = d * HoursPerDay + h

\* The number of IN_STORE orders created in an hour of day.
InStoreCountOfHour(h) ==
    Cardinality({k \in 1..Len(orders) :
        orders[k].order_type = IN_STORE /\ HourOfDay(orders[k].created_at) = h})

RECURSIVE SumOfCounts(_)
SumOfCounts(result) ==
    IF result = <<>> THEN 0 ELSE Head(result).order_count + SumOfCounts(Tail(result))

\* C13: in-store-purchase-hours returns one pair per hour of day in which an
\* IN_STORE order was created, with the number of IN_STORE orders created in
\* that hour (on whatever day) as the count, and no pair for another hour;
\* the counts add up to the number of IN_STORE orders, and the pairs are
\* sorted by count non-increasing.
C13_InStoreHours ==
    /\ main_get_in_store_hours(DB) # {}
    /\ \A result \in main_get_in_store_hours(DB) :
        /\ \A h \in 0..(HoursPerDay - 1) :
             LET pairs == {i \in 1..Len(result) : result[i].hour = h}
             IN  /\ Cardinality(pairs) = IF InStoreCountOfHour(h) > 0 THEN 1 ELSE 0
                 /\ \A i \in pairs : result[i].order_count = InStoreCountOfHour(h)
        /\ \A i \in 1..Len(result) : result[i].hour \in 0..(HoursPerDay - 1)
        /\ SumOfCounts(result) =
                Cardinality({k \in 1..Len(orders) : orders[k].order_type = IN_STORE})
        /\ SortedByCount(result, FALSE)

\* Two hours were returned, the first with two IN_STORE orders that were
\* created on different days, the second with one.
C13_Witness ==
    /\ response.operation = "get_in_store_hours"
    /\ Len(response.body) = 2
    /\ response.body[1].order_count = 2
    /\ response.body[2].order_count = 1
    /\ \E j, k \in 1..Len(orders) :
            /\ orders[j].order_type = IN_STORE
            /\ orders[k].order_type = IN_STORE
            /\ orders[j].created_at # orders[k].created_at
            /\ HourOfDay(orders[j].created_at) = response.body[1].hour
            /\ HourOfDay(orders[k].created_at) = response.body[1].hour

\* A committed customer row has the email or the telephone of the request.
Clashes(customer) ==
    \E i \in 1..Len(customers) :
        \/ customers[i].email = customer.email
        \/ customers[i].telephone = customer.telephone

\* C14: when a create-customer request that has passed the pre-check takes
\* its next step while a committed row has its email or its telephone (a
\* request that interleaved with it won), the request ends with a failure
\* (500), is not run again, and the tables stay as they are, so that no
\* customer row and no address row of the request is stored; the store
\* accepts its INSERT only when no committed row clashes; and after every
\* step no two customer rows share an email or a telephone.
C14_RaceLoserFails ==
    [][/\ \A r \in Requests :
            (session[r].pc = "checked" /\ session'[r] # session[r]) =>
                /\ Clashes(session[r].customer[1]) =>
                        /\ session'[r].pc = "idle"
                        /\ session'[r].tx = None
                        /\ session'[r].response.status_code = 500
                        /\ UNCHANGED tables
                /\ session'[r].pc = "flushed" => ~Clashes(session[r].customer[1])
       /\ \A i, j \in 1..Len(customers') :
            i # j => /\ customers'[i].email # customers'[j].email
                     /\ customers'[i].telephone # customers'[j].telephone]_vars

\* Both requests had passed the pre-check; one committed its customer and
\* addresses and got 200, the other was rejected at its INSERT, and the
\* winner's rows are the only ones stored.
C14_Witness ==
    \E r1, r2 \in Requests :
        /\ session[r1].response.status_code = 200
        /\ session[r2].response.detail = "IntegrityError"
        /\ Len(customers) = 1
        /\ customers[1].id = session[r1].response.body[1].id
        /\ Len(addresses) = MaxAddrs
        /\ \A i \in 1..Len(addresses) : addresses[i].customer_id = customers[1].id
        /\ orders = <<>>

\* C15: a create-order request that adds an order row is answered 200 with
\* that order, its billing address and its attached shipping addresses; a
\* request that is answered with a failure leaves the orders table and the
\* association table as they were.
C15_PersistedIffSuccess ==
    \A customer_id \in OrdersCustomerIds, order \in OrdersOrderInputs :
        LET r == main_create_order(DB, now, fk_enforced, customer_id, order)
        IN  /\ Len(r.db.orders) > Len(orders) =>
                    /\ r.response.status_code = 200
                    /\ r.response.body[1].id = r.db.orders[Len(r.db.orders)].id
                    /\ r.response.body[1].billing_address # None
                    /\ Ids(r.response.body[1].shipping_addresses)
                            = {l.address_id : l \in Range(AddedLinks(r.db))}
            /\ r.response.status_code # 200 =>
                    /\ r.db.orders = orders
                    /\ r.db.order_shipping_addresses = order_shipping_addresses

\* C16: every row of the shipping association names a stored order and a
\* stored address, and the customer_id of every address row names a stored
\* customer.
C16_ReferencesExist ==
    /\ \A k \in 1..Len(order_shipping_addresses) :
            /\ order_shipping_addresses[k].order_id \in Ids(orders)
            /\ order_shipping_addresses[k].address_id \in Ids(addresses)
    /\ \A i \in 1..Len(addresses) : addresses[i].customer_id \in Ids(customers)

\* An order for a customer id that no customer has was created with a list
\* of a stored address id and an id that no address has, and association
\* rows of two orders are stored.
C16_Witness ==
    /\ request # None
    /\ response.operation = "create_order"
    /\ request[1].customer_id \notin Ids(customers)
    /\ Range(request[1].order.shipping_address_ids) \cap Ids(addresses) # {}
    /\ Range(request[1].order.shipping_address_ids) \ Ids(addresses) # {}
    /\ Len(orders) = MaxOrders
    /\ {l.order_id : l \in Range(order_shipping_addresses)} = Ids(orders)
    /\ addresses # <<>>

\* The rows of a table stay where and what they are, and the rows a step
\* adds are created at the time of the step and have never been updated.
RowsKept(old, new) ==
    /\ Len(new) >= Len(old)
    /\ SubSeq(new, 1, Len(old)) = old
    /\ \A i \in (Len(old) + 1)..Len(new) :
            new[i].created_at = now /\ new[i].updated_at = None

\* C17: every step keeps every customer, address and order row with its
\* created_at and field values, deletes none, stamps the rows it adds with
\* the time of the step, and leaves updated_at absent on every row, the
\* rows of a new order, of its customer and of its shipping addresses
\* included.
C17_RowsImmutable ==
    [][/\ RowsKept(customers, customers')
       /\ RowsKept(addresses, addresses')
       /\ RowsKept(orders, orders')
       /\ SubSeq(order_shipping_addresses', 1, Len(order_shipping_addresses))
                = order_shipping_addresses
       /\ \A row \in Range(customers') \cup Range(addresses') \cup Range(orders') :
                row.updated_at = None]_vars

\* After the clock had advanced, an order was created and returned with a
\* shipping address attached; its customer and addresses were created
\* before, and no row has an updated_at.
C17_Witness ==
    /\ response.operation = "create_order"
    /\ response.status_code = 200
    /\ response.body[1].created_at = MaxTime
    /\ response.body[1].updated_at = None
    /\ response.body[1].shipping_addresses # <<>>
    /\ response.body[1].shipping_addresses[1].created_at < MaxTime
    /\ response.body[1].shipping_addresses[1].updated_at = None
    /\ customers[1].created_at < MaxTime
    /\ customers[1].updated_at = None

\* The operations that are queries.
ReadOperations ==
    {"get_customer_by_email", "get_customer_by_telephone",
     "get_customer_order_history", "get_orders_by_zip:billing",
     "get_orders_by_zip:shipping", "get_in_store_hours",
     "get_top_in_store_customers"}

\* C18: a step that answers a lookup, an order history or one of the three
\* analytics leaves the four tables as they were, whatever it answers.
C18_ReadOnly ==
    [][response'.operation \in ReadOperations => UNCHANGED tables]_vars

\* With customers, orders and association rows stored, an order history was
\* asked for an identifier that no customer has and answered not-found.
C18_Witness ==
    /\ response.operation = "get_customer_order_history"
    /\ response.status_code = 404
    /\ Len(customers) = MaxCustomers
    /\ Len(orders) = MaxOrders
    /\ order_shipping_addresses # <<>>

=============================================================================
